---------------------------- MODULE Spec2Model ----------------------------
(***************************************************************************)
(* Model of the search component of chess2 (src/src/algorithm.rs):         *)
(* update_min_max, update_prune_value, order_moves and gen_best_move.      *)
(*                                                                         *)
(* The move generator (gen_piece, gen_enemy_attacks, new_turn), the board  *)
(* helpers (bit_on, find_bit_on, TeamBitboards::new) and the piece catalog *)
(* are not part of the sources at hand.  Their results are inputs of the   *)
(* model: tables drawn in the initial state (piece_moves, enemy_attacks,   *)
(* new_turn_table) or small operators written from the specification.      *)
(*                                                                         *)
(* A bitboard is modelled as the set of its set bits; the board has        *)
(* NumSquares squares instead of 64.                                       *)
(***************************************************************************)
EXTENDS Integers, Sequences, FiniteSets, TLC

\* ---------------------------------------------------------------- bounds
NumSquares == 3      \* squares of the board (0..64 in the code)
MaxHeat == 1         \* largest heatmap entry (u16 in the code)
MaxSeq == 4          \* longest candidate sequence fed to update_min_max
MaxDepth == 4        \* largest search_depth of a root call
MaxDelta == 1        \* largest points_delta of a new board (i8 in the code)

\* ------------------------------------------------------ program constants
WinValue == 127          \* TurnError::Win => branch_value = 127
DrawValue == 0           \* TurnError::Draw => branch_value = 0
WhiteKingIndex == 5      \* friendly_king_index when board.whites_move
BlackKingIndex == 11     \* friendly_king_index otherwise
WhiteBottom == 0         \* friendly_indexes = 0..6 / enemy_index_bottom = 0
BlackBottom == 6         \* friendly_indexes = 6..12 / enemy_index_bottom = 6
BlackTop == 12           \* enemy_index_top = 12

Squares == 0 .. (NumSquares - 1)
BoardIndexes == WhiteBottom .. (BlackTop - 1)
Deltas == 0 .. MaxDelta
Values == -2 .. 2        \* candidate values fed to update_min_max on its own

VARIABLES
    \* inputs of order_moves / gen_best_move
    board,            \* the Board of the call: [board, whites_move, points_delta]
    piece_moves,      \* gen_piece: moves_bitboard of the piece at [board_index][bit]
    enemy_attacks,    \* gen_enemy_attacks: enemy_attack_bitboard per side to move
    opening_heatmap,  \* [board_index][square] -> u16
    new_turn_table,   \* new_turn: outcome of a move, per side to move and destination
    pieces_info,      \* the piece catalog: [board_index] -> PieceInfo
    \* order_moves on its own
    moves,            \* Option<Vec<Move>>: the vector order_moves returned
    \* update_min_max on its own
    min_max,          \* the MinMax accumulator
    applied,          \* the candidates applied to it so far, in order
    \* gen_best_move
    search_depth,
    current_depth,    \* the current_depth of the root call
    master_team,      \* the side flag of the root call
    stack,            \* the activation records of gen_best_move, root first
    pc,               \* "idle", "running", "done" or "panic"
    result,           \* the Move the root call returned
    previous,         \* Option<Move>: what an earlier root call returned
    last,             \* what the latest step did
    \* main: the team selection of the firmware
    player_white,
    game_started,
    team_message_start_cycle,
    cycle_counter,    \* cycle_counter.cycles
    lcd,              \* the first row of the display
    pressed,          \* whether button.press registered a press in this iteration
    rtt,              \* what rprintln! printed last
    main_pc           \* where main is

\* the state of the team selection
Firmware == << player_white, game_started, team_message_start_cycle, cycle_counter, lcd,
               pressed, rtt, main_pc >>

\* the state of the search component
Engine == << board, piece_moves, enemy_attacks, opening_heatmap, new_turn_table,
             pieces_info, current_depth, moves, min_max, applied, search_depth,
             master_team, stack, pc, result, previous, last >>

vars == << board, piece_moves, enemy_attacks, opening_heatmap, new_turn_table,
           pieces_info, current_depth, moves, min_max, applied, search_depth,
           master_team, stack, pc, result, previous, last,
           player_white, game_started, team_message_start_cycle, cycle_counter, lcd,
           pressed, rtt, main_pc >>

\* main is not running
FirmwareOff ==
    /\ player_white = TRUE
    /\ game_started = FALSE
    /\ team_message_start_cycle = 0
    /\ cycle_counter = 0
    /\ lcd = ""
    /\ pressed = FALSE
    /\ rtt = ""
    /\ main_pc = "off"

\* ----------------------------------------------------------------- types
None == [some |-> FALSE, val |-> 0]
Some(v) == [some |-> TRUE, val |-> v]

BoardCoordinates(i, b) == [board_index |-> i, bit |-> b]

MakeMove(coords, final_bit, v, h) ==
    [ initial_piece_coordinates |-> coords,
      final_piece_bit |-> final_bit,
      value |-> v,
      heatmap_value |-> h ]

\* Move::new()
MoveNew == MakeMove(BoardCoordinates(0, 0), 0, 0, 0)

NoMove == [some |-> FALSE, val |-> MoveNew]

\* MinMax { max_move: None, min_value: None }
MinMaxNew == [max_move |-> NoMove, min_value |-> None]

\* ------------------------------------------------------- update_min_max
UpdateMinMaxGe(piece_move, mm) ==
    IF ~mm.max_move.some
    THEN [max_move |-> Some(piece_move), min_value |-> Some(piece_move.value)]
    ELSE IF piece_move.value >= mm.max_move.val.value
         THEN [mm EXCEPT !.max_move = Some(piece_move)]
         ELSE IF piece_move.value < mm.min_value.val
              THEN [mm EXCEPT !.min_value = Some(piece_move.value)]
              ELSE mm

update_min_max(piece_move, mm) ==
    IF ~mm.max_move.some
    THEN [max_move |-> Some(piece_move), min_value |-> Some(piece_move.value)]
    ELSE IF piece_move.value > mm.max_move.val.value
         THEN [mm EXCEPT !.max_move = Some(piece_move)]
         ELSE IF piece_move.value < mm.min_value.val
              THEN [mm EXCEPT !.min_value = Some(piece_move.value)]
              ELSE mm

\* ---------------------------------------------------- update_prune_value
update_prune_value(master, mm) ==
    IF master
    THEN IF mm.max_move.some THEN Some(mm.max_move.val.value) ELSE None
    ELSE mm.min_value


\* ------------------------------------------- helpers outside the sources
\* crate::bit_on(bitboard, bit)
bit_on(bitboard, bit) == bit \in bitboard

\* crate::find_bit_on(bitboard, start): the first set bit at or after start
find_bit_on(bitboard, start) ==
    CHOOSE b \in bitboard : b >= start /\ \A c \in bitboard : c >= start => b <= c

\* pieces_info[i].value: pawn, knight, bishop, rook, queen, king of each colour
PieceValue(i) == pieces_info[i].value

\* piece::constants::gen(): the catalog, one PieceInfo per board index
PiecesInfoGen ==
    [ i \in BoardIndexes |-> [ value |-> << 1, 3, 3, 5, 9, 0 >>[(i % BlackBottom) + 1] ] ]

IsWhiteIndex(i) == i < BlackBottom

\* TeamBitboards::new(friendly_king_index, &board)
TeamBitboardsNew(friendly_king_index, b) ==
    LET white == UNION { b.board[i] : i \in WhiteBottom .. (BlackBottom - 1) }
        black == UNION { b.board[i] : i \in BlackBottom .. (BlackTop - 1) }
    IN  IF IsWhiteIndex(friendly_king_index)
        THEN [friendly_team |-> white, enemy_team |-> black]
        ELSE [friendly_team |-> black, enemy_team |-> white]

\* gen_piece(&initial_piece_coordinates, None, team_bitboards, false, board,
\* pieces_info).moves_bitboard
GenPiece(coords) == piece_moves[coords.board_index][coords.bit]

\* ------------------------------------------------------------ order_moves
FriendlyBottom(b) == IF b.whites_move THEN WhiteBottom ELSE BlackBottom
EnemyIndexBottom(b) == IF b.whites_move THEN BlackBottom ELSE WhiteBottom
EnemyIndexes(b) == EnemyIndexBottom(b) .. (EnemyIndexBottom(b) + BlackBottom - 1)

\* the value of a move the piece's bitboard holds (the captured piece's value,
\* or the trade's when an enemy can move to the destination)
MoveValueSwapped(i, final_bit, b, ea, team_bitboards) ==
    LET hit == { j \in EnemyIndexes(b) : bit_on(b.board[j], final_bit) }
    IN  IF bit_on(team_bitboards.enemy_team, final_bit) /\ hit # {}
        THEN LET j == CHOOSE x \in hit : \A y \in hit : x <= y
                 capture_value == PieceValue(j)
             IN  IF bit_on(ea, final_bit)
                 THEN capture_value - PieceValue(i)
                 ELSE capture_value
        ELSE 0

MoveValue(i, final_bit, b, ea, team_bitboards) ==
    LET hit == { j \in EnemyIndexes(b) : bit_on(b.board[j], final_bit) }
    IN  IF bit_on(team_bitboards.enemy_team, final_bit) /\ hit # {}
        THEN LET j == CHOOSE x \in hit : \A y \in hit : x <= y
                 capture_value == PieceValue(j)
             IN  IF bit_on(ea, final_bit)
                 THEN PieceValue(i) - capture_value
                 ELSE capture_value
        ELSE 0

\* the moves the innermost loop pushes for one (piece, final_bit): none or one
PushedNoKing(coords, final_bit, b, ea, friendly_king, heatmap, team_bitboards) ==
    LET heatmap_value == heatmap[coords.board_index][final_bit]
    IN  IF bit_on(GenPiece(coords), final_bit)
        THEN << MakeMove(coords, final_bit,
                         MoveValue(coords.board_index, final_bit, b, ea, team_bitboards),
                         heatmap_value) >>
        ELSE << >>

Pushed(coords, final_bit, b, ea, friendly_king, heatmap, team_bitboards) ==
    LET heatmap_value == heatmap[coords.board_index][final_bit]
    IN  IF bit_on(GenPiece(coords), final_bit)
        THEN << MakeMove(coords, final_bit,
                         MoveValue(coords.board_index, final_bit, b, ea, team_bitboards),
                         heatmap_value) >>
        ELSE IF coords = friendly_king
             THEN << MakeMove(coords, final_bit, 0, heatmap_value) >>
             ELSE << >>

\* the three nested loops, flattened: t counts (i, initial_bit, final_bit)
UnsortedMoves(b, ea, friendly_king, heatmap, team_bitboards) ==
    LET n == NumSquares
        total == BlackBottom * n * n
        body(t) ==
            LET i == FriendlyBottom(b) + (t \div (n * n))
                initial_bit == (t \div n) % n
                final_bit == t % n
                coords == BoardCoordinates(i, initial_bit)
            IN  IF ~bit_on(b.board[i], initial_bit)
                THEN << >>
                ELSE Pushed(coords, final_bit, b, ea, friendly_king, heatmap,
                            team_bitboards)
        loop[t \in 0 .. total] ==
            IF t = 0 THEN << >> ELSE loop[t - 1] \o body(t - 1)
    IN  loop[total]

\* the comparator of moves.sort_by: TRUE when a sorts strictly before b
SortsBeforeAscendingHeat(a, b) ==
    IF a.value = b.value
    THEN a.heatmap_value < b.heatmap_value
    ELSE a.value > b.value

SortsBefore(a, b) ==
    IF a.value = b.value
    THEN a.heatmap_value > b.heatmap_value
    ELSE a.value > b.value

\* moves.sort_by(..): a stable sort
SortMoves(ms) ==
    LET insert(m, s) ==
            LET front == { j \in 1 .. Len(s) : SortsBefore(m, s[j]) }
                at == IF front = {} THEN Len(s) + 1
                      ELSE CHOOSE j \in front : \A k \in front : j <= k
            IN  SubSeq(s, 1, at - 1) \o << m >> \o SubSeq(s, at, Len(s))
        sorted[k \in 0 .. Len(ms)] ==
            IF k = 0 THEN << >> ELSE insert(ms[k], sorted[k - 1])
    IN  sorted[Len(ms)]

order_moves(sort, b, ea, friendly_king, heatmap, team_bitboards) ==
    LET unsorted == UnsortedMoves(b, ea, friendly_king, heatmap, team_bitboards)
    IN  IF sort THEN SortMoves(unsorted) ELSE unsorted

FriendlyKingIndex(b) == IF b.whites_move THEN WhiteKingIndex ELSE BlackKingIndex
EnemyKingIndex(b) == IF b.whites_move THEN BlackKingIndex ELSE WhiteKingIndex

FriendlyKing(b) ==
    BoardCoordinates(FriendlyKingIndex(b), find_bit_on(b.board[FriendlyKingIndex(b)], 0))

\* the candidates gen_best_move iterates over (lines 83-111)
Candidates(b, heatmap) ==
    order_moves(TRUE, b, enemy_attacks[b.whites_move], FriendlyKing(b), heatmap,
                TeamBitboardsNew(FriendlyKingIndex(b), b))

\* --------------------------------------------------------- input domains
SmallBitboards == { {} } \cup { {s} : s \in Squares } \cup { Squares }

NonKingIndexes == BoardIndexes \ { WhiteKingIndex, BlackKingIndex }

Placement(wk, bk, xi, xs) ==
    [ i \in BoardIndexes |->
        IF i = WhiteKingIndex THEN {wk}
        ELSE IF i = BlackKingIndex THEN {bk}
        ELSE IF i = xi THEN {xs} ELSE {} ]

\* one king a side and at most one more piece, no two pieces on a square
SmallBoards ==
    { [board |-> Placement(wk, bk, xi, xs), whites_move |-> w, points_delta |-> 0] :
        << wk, bk, xi, xs, w >> \in
            { t \in Squares \X Squares \X (NonKingIndexes \cup {BlackTop}) \X Squares \X BOOLEAN :
                /\ t[1] # t[2]
                /\ IF t[3] = BlackTop THEN t[4] = 0 ELSE t[4] \notin { t[1], t[2] } } }

\* at most one entry is not zero before the per-piece shift
HeatRows ==
    { [s \in Squares |-> 0] } \cup
    { [s \in Squares |-> IF s = q THEN MaxHeat ELSE 0] : q \in Squares }

HeatmapOf(row) ==
    [ i \in BoardIndexes |-> [ s \in Squares |-> (row[s] + i) % (MaxHeat + 1) ] ]

Heatmaps == { HeatmapOf(row) : row \in HeatRows }

ZeroHeatmap == [ i \in BoardIndexes |-> [ s \in Squares |-> 0 ] ]

\* gen_piece tables: a bitboard for each friendly piece on the board
FriendlyPieces(b) ==
    { BoardCoordinates(i, s) : i \in FriendlyBottom(b) .. (FriendlyBottom(b) + BlackBottom - 1),
                               s \in Squares } \cap
    { c \in [board_index : BoardIndexes, bit : Squares] : c.bit \in b.board[c.board_index] }

PieceMoveTables(b) ==
    { [ i \in BoardIndexes |-> [ s \in Squares |->
          IF BoardCoordinates(i, s) = FriendlyKing(b) THEN kb
          ELSE IF BoardCoordinates(i, s) \in FriendlyPieces(b) THEN xb ELSE {} ] ] :
        kb \in SmallBitboards, xb \in SmallBitboards }

NoPieceMoves == [ i \in BoardIndexes |-> [ s \in Squares |-> {} ] ]
NoAttacks == [ w \in BOOLEAN |-> {} ]
NoTurns == [ w \in BOOLEAN |-> [ s \in Squares |-> [kind |-> "InvalidMove", points_delta |-> 0] ] ]
NoneMoves == [some |-> FALSE, val |-> << >>]
IdleLast == [op |-> "none"]

\* ------------------------------------------- order_moves, called directly
InitOrder ==
    /\ board \in SmallBoards
    /\ piece_moves \in PieceMoveTables(board)
    /\ enemy_attacks \in { [ w \in BOOLEAN |-> ea ] : ea \in SmallBitboards }
    /\ opening_heatmap \in Heatmaps
    /\ new_turn_table = NoTurns
    /\ pieces_info = PiecesInfoGen
    /\ moves = NoneMoves
    /\ min_max = MinMaxNew
    /\ applied = << >>
    /\ search_depth = 0
    /\ current_depth = 0
    /\ master_team = TRUE
    /\ stack = << >>
    /\ pc = "idle"
    /\ result = MoveNew
    /\ previous = NoMove
    /\ last = IdleLast
    /\ FirmwareOff

\* let result = order_moves(true, &board, &enemy_attacks, &king, ..)
OrderMovesCall ==
    /\ ~moves.some
    /\ moves' = [some |-> TRUE, val |-> Candidates(board, opening_heatmap)]
    /\ UNCHANGED << board, piece_moves, enemy_attacks, opening_heatmap, new_turn_table,
                    pieces_info, current_depth, Firmware,
                    min_max, applied, search_depth, master_team, stack, pc, result,
                    previous, last >>

NextOrder == OrderMovesCall

SpecOrder == InitOrder /\ [][NextOrder]_vars


\* the enemy piece standing on square d of the board, if any
EnemyOn(d) ==
    { j \in BoardIndexes : IsWhiteIndex(j) # board.whites_move /\ d \in board.board[j] }

\* a capture: a move the piece's bitboard holds, onto a square an enemy stands on
IsCapture(m) ==
    /\ m.final_piece_bit \in GenPiece(m.initial_piece_coordinates)
    /\ EnemyOn(m.final_piece_bit) # {}

Returned == { moves.val[k] : k \in 1 .. Len(moves.val) }

\* C3: order_moves with sort = true returns a sequence that is non-increasing in
\* value and, between neighbours of equal value, non-increasing in heatmap_value.
C3_Sorted ==
    moves.some =>
        \A k \in 1 .. (Len(moves.val) - 1) :
            /\ moves.val[k].value >= moves.val[k + 1].value
            /\ moves.val[k].value = moves.val[k + 1].value
                   => moves.val[k].heatmap_value >= moves.val[k + 1].heatmap_value

\* a result with a strict drop in value and, inside a run of equal value, a
\* strict drop in heatmap_value
C3_Witness ==
    /\ moves.some
    /\ \E k \in 1 .. (Len(moves.val) - 1) : moves.val[k].value > moves.val[k + 1].value
    /\ \E k \in 1 .. (Len(moves.val) - 1) :
           /\ moves.val[k].value = moves.val[k + 1].value
           /\ moves.val[k].heatmap_value > moves.val[k + 1].heatmap_value

\* C4: the (piece, destination) pairs order_moves returns are exactly: for each
\* piece of the side to move other than the reference king, the set bits of its
\* generated bitboard; for the reference king, every square.  Nothing is emitted
\* for a piece of the other side, and no pair is emitted twice.
C4_ExactPairs ==
    moves.some =>
        LET pairs == { << m.initial_piece_coordinates, m.final_piece_bit >> : m \in Returned }
            expected ==
                { << c, d >> \in FriendlyPieces(board) \X Squares :
                      c = FriendlyKing(board) \/ d \in GenPiece(c) }
        IN  /\ pairs = expected
            /\ Cardinality(pairs) = Len(moves.val)
            /\ \A m \in Returned :
                   IsWhiteIndex(m.initial_piece_coordinates.board_index) = board.whites_move

\* a board where a piece other than the king has some but not all squares in its
\* bitboard, the king's bitboard misses a square, and the other side has a piece
C4_Witness ==
    /\ moves.some
    /\ \E c \in FriendlyPieces(board) :
           /\ c # FriendlyKing(board)
           /\ GenPiece(c) # {}
           /\ GenPiece(c) # Squares
    /\ GenPiece(FriendlyKing(board)) # Squares
    /\ Len(moves.val) > NumSquares

InitMinMax ==
    /\ board = [board |-> Placement(0, NumSquares - 1, BlackTop, 0),
                whites_move |-> TRUE, points_delta |-> 0]
    /\ piece_moves = NoPieceMoves
    /\ enemy_attacks = NoAttacks
    /\ opening_heatmap = ZeroHeatmap
    /\ new_turn_table = NoTurns
    /\ pieces_info = PiecesInfoGen
    /\ moves = NoneMoves
    /\ min_max = MinMaxNew
    /\ applied = << >>
    /\ search_depth = 0
    /\ current_depth = 0
    /\ master_team = TRUE
    /\ stack = << >>
    /\ pc = "idle"
    /\ result = MoveNew
    /\ previous = NoMove
    /\ last = IdleLast
    /\ FirmwareOff

\* let min_max = update_min_max(piece_move, min_max); the candidate's final_piece_bit
\* tells the candidates of one sequence apart
UpdateMinMaxCall ==
    /\ Len(applied) < MaxSeq
    /\ \E v \in Values :
           LET piece_move == MakeMove(BoardCoordinates(0, 0), Len(applied), v, 0)
           IN  /\ min_max' = update_min_max(piece_move, min_max)
               /\ applied' = Append(applied, piece_move)
    /\ UNCHANGED << board, piece_moves, enemy_attacks, opening_heatmap, new_turn_table,
                    pieces_info, current_depth, Firmware,
                    moves, search_depth, master_team, stack, pc, result, previous, last >>

NextMinMax == UpdateMinMaxCall

SpecMinMax == InitMinMax /\ [][NextMinMax]_vars

\* C6: after the first candidate both fields hold its value; after any sequence
\* max_move is the earliest candidate of the largest value, min_value the smallest
\* value seen, and min_value <= max_move.value.
C6_RunningBest ==
    /\ applied = << >> => min_max = MinMaxNew
    /\ Len(applied) = 1 =>
           /\ min_max.max_move = Some(applied[1])
           /\ min_max.min_value = Some(applied[1].value)
    /\ applied # << >> =>
           /\ min_max.max_move.some /\ min_max.min_value.some
           /\ \E k \in 1 .. Len(applied) :
                  /\ min_max.max_move.val = applied[k]
                  /\ \A j \in 1 .. Len(applied) : applied[j].value <= applied[k].value
                  /\ \A j \in 1 .. (k - 1) : applied[j].value < applied[k].value
           /\ \E k \in 1 .. Len(applied) : min_max.min_value.val = applied[k].value
           /\ \A j \in 1 .. Len(applied) : min_max.min_value.val <= applied[j].value
           /\ min_max.min_value.val <= min_max.max_move.val.value

\* a sequence where the largest value comes twice, after a smaller one, and a
\* later candidate lies strictly between the minimum and the maximum
C6_Witness ==
    /\ Len(applied) >= 4
    /\ \E j, k \in 1 .. Len(applied) :
           /\ 1 < j /\ j < k
           /\ applied[j].value = applied[k].value
           /\ min_max.max_move.val = applied[j]
    /\ min_max.min_value.val < applied[Len(applied)].value
    /\ applied[Len(applied)].value < min_max.max_move.val.value


\* ---------------------------------------------------------- gen_best_move
\* new_turn(&initial_piece_coordinates, final_piece_bit, friendly_king, ..): the
\* outcome is read from the table; a new board has the other side to move
NewTurn(coords, final_bit, b) ==
    LET outcome == new_turn_table[b.whites_move][final_bit]
    IN  [ kind |-> outcome.kind,
          new_board |-> [ board |-> b.board,
                          whites_move |-> ~b.whites_move,
                          points_delta |-> outcome.points_delta ] ]

\* lines 75-81: the Move returned when current_depth == search_depth
LeafMove(init_value) == [MoveNew EXCEPT !.value = init_value]

\* lines 130-137: the accumulated value handed to the child
BranchValueUnsigned(master, init_value, points_delta) == init_value + points_delta

BranchValue(master, init_value, points_delta) ==
    LET move_value == IF ~master THEN points_delta * (-1) ELSE points_delta
    IN  init_value + move_value

\* lines 140-145: the candidate with the value the recursion returned
PieceMoveOfChild(candidate, returned) == returned

PieceMoveWithHeat(candidate, returned) ==
    MakeMove(candidate.initial_piece_coordinates, candidate.final_piece_bit,
             returned.value + candidate.heatmap_value, 0)

PieceMove(candidate, returned) ==
    MakeMove(candidate.initial_piece_coordinates, candidate.final_piece_bit,
             returned.value, 0)

\* lines 153-166: branch_value of a failed turn
ErrBranchValueUnsigned(master, kind) ==
    IF kind = "Win" THEN WinValue ELSE DrawValue

ErrBranchValue(master, kind) ==
    LET branch_value == IF kind = "Win" THEN WinValue
                        ELSE IF kind = "Draw" THEN DrawValue ELSE 0
    IN  IF ~master THEN branch_value * (-1) ELSE branch_value

\* lines 184-208: whether the loop breaks after a recursion returned
ShouldBreakNever(master, parent_value, mm) == FALSE

ShouldBreakOtherField(master, parent_value, mm) ==
    /\ parent_value.some
    /\ IF master
       THEN mm.min_value.some /\ mm.min_value.val <= parent_value.val
       ELSE mm.max_move.some /\ mm.max_move.val.value >= parent_value.val

ShouldBreakWrongWay(master, parent_value, mm) ==
    /\ parent_value.some
    /\ IF master
       THEN mm.max_move.some /\ mm.max_move.val.value <= parent_value.val
       ELSE mm.min_value.some /\ mm.min_value.val >= parent_value.val

ShouldBreak(master, parent_value, mm) ==
    /\ parent_value.some
    /\ IF master
       THEN mm.max_move.some /\ mm.max_move.val.value >= parent_value.val
       ELSE mm.min_value.some /\ mm.min_value.val <= parent_value.val

\* lines 211-217: the Option unwrapped at the end, and the Move returned
UnwrappedAlways(master, mm) == TRUE

Unwrapped(master, mm) == IF master THEN mm.max_move.some ELSE mm.min_value.some

ReturnMove(master, mm) ==
    IF master
    THEN mm.max_move.val
    ELSE [MoveNew EXCEPT !.value = mm.min_value.val]

\* an activation of gen_best_move at its first line
Activation(master, depth, init_value, parent_value, b) ==
    [ master_team |-> master,
      current_depth |-> depth,
      init_value |-> init_value,
      parent_value |-> parent_value,
      board |-> b,
      at |-> "entry",
      moves |-> << >>,
      i |-> 1,
      min_max |-> MinMaxNew,
      prune_value |-> None,
      broke |-> FALSE,
      seen |-> << >>,          \* history: the candidates that entered min_max
      prev_kind |-> "none",    \* history: the outcome of the candidate before moves[i]
      cut_depths |-> {} ]      \* history: the depths below at which a break skipped candidates

Top == stack[Len(stack)]
Rest == SubSeq(stack, 1, Len(stack) - 1)
ReplaceTop(f) == [stack EXCEPT ![Len(stack)] = f]

\* lines 147-148 / 176-177 and the continue: the candidate moves[i] got a value
Entered(f, piece_move, kind) ==
    LET mm == update_min_max(piece_move, f.min_max)
    IN  [ f EXCEPT !.min_max = mm,
                   !.prune_value = update_prune_value(f.master_team, mm),
                   !.i = f.i + 1,
                   !.seen = Append(f.seen, [k |-> f.i, kind |-> kind,
                                            value |-> piece_move.value]),
                   !.prev_kind = kind ]

\* history: the depths at which the returning activation or one below it left
\* candidates unexamined
CutDepths(child) ==
    child.cut_depths \cup
    (IF child.broke /\ child.i <= Len(child.moves) THEN { child.current_depth } ELSE {})

\* the caller's side of a recursive call that returned (lines 139-148, 184-208)
ResumedOnChildBoard(f, child, returned) ==
    LET g == Entered(f, PieceMove(f.moves[f.i], returned), "Ok")
    IN  [ g EXCEPT !.broke = ShouldBreak(g.master_team, g.parent_value, g.min_max),
                   !.cut_depths = f.cut_depths \cup CutDepths(child),
                   !.board = child.board ]

Resumed(f, child, returned) ==
    LET g == Entered(f, PieceMove(f.moves[f.i], returned), "Ok")
    IN  [ g EXCEPT !.broke = ShouldBreak(g.master_team, g.parent_value, g.min_max),
                   !.cut_depths = f.cut_depths \cup CutDepths(child) ]

\* the path of the top activation: who moved and the points_delta of each ply
PathOf(st) ==
    [ j \in 1 .. (Len(st) - 1) |->
        [ master |-> st[j].master_team, points_delta |-> st[j + 1].board.points_delta ] ]

\* a call returns: to the caller's loop, or to whoever made the root call
Return(returned, op) ==
    /\ last' = [ op |-> op, frame |-> Top, returned |-> returned, path |-> PathOf(stack) ]
    /\ IF Len(stack) = 1
       THEN /\ stack' = << >>
            /\ result' = returned
            /\ pc' = "done"
       ELSE /\ stack' = Append(SubSeq(stack, 1, Len(stack) - 2),
                               Resumed(stack[Len(stack) - 1], Top, returned))
            /\ UNCHANGED << result, pc >>

Inputs == << board, piece_moves, enemy_attacks, new_turn_table, pieces_info, search_depth,
            current_depth, master_team, Firmware >>
Others == << moves, min_max, applied >>

\* gen_best_move(master_team, search_depth, current_depth, 0, None, &opening_heatmap,
\* board, ..)
RootCall ==
    /\ pc = "idle"
    /\ pc' = "running"
    /\ stack' = << Activation(master_team, current_depth, 0, None, board) >>
    /\ last' = [ op |-> "call" ]
    /\ UNCHANGED << Inputs, Others, opening_heatmap, result, previous >>

\* lines 78-81
LeafReturn ==
    /\ pc = "running"
    /\ Top.at = "entry"
    /\ Top.current_depth = search_depth
    /\ Return(LeafMove(Top.init_value), "leaf")
    /\ UNCHANGED << Inputs, Others, opening_heatmap, previous >>

\* lines 83-118
Expand ==
    /\ pc = "running"
    /\ Top.at = "entry"
    /\ Top.current_depth # search_depth
    /\ stack' = ReplaceTop([ Top EXCEPT !.at = "loop",
                                        !.moves = Candidates(Top.board, opening_heatmap) ])
    /\ last' = [ op |-> "expand", frame |-> Top ]
    /\ UNCHANGED << Inputs, Others, opening_heatmap, pc, result, previous >>

InLoop ==
    /\ pc = "running"
    /\ Top.at = "loop"
    /\ ~Top.broke
    /\ Top.i <= Len(Top.moves)

Outcome ==
    NewTurn(Top.moves[Top.i].initial_piece_coordinates, Top.moves[Top.i].final_piece_bit,
            Top.board)

Applied(kind) == [ op |-> "apply", kind |-> kind, frame |-> Top, depth |-> Len(stack) ]

\* the most activations a stack holds: one more than a search of MaxDepth plies
\* from current_depth 0 needs
MaxPly == MaxDepth + 1

\* lines 124-139 with a child two plies down
ApplyOkSkipping ==
    /\ InLoop
    /\ Outcome.kind = "Ok"
    /\ Len(stack) < MaxPly
    /\ stack' = Append(stack,
           Activation(~Top.master_team, Top.current_depth + 2,
                      BranchValue(Top.master_team, Top.init_value,
                                  Outcome.new_board.points_delta),
                      Top.prune_value, Outcome.new_board))
    /\ last' = Applied("Ok")
    /\ UNCHANGED << Inputs, Others, opening_heatmap, pc, result, previous >>

\* lines 124-139: Ok(new_board), the recursive call
ApplyOk ==
    /\ InLoop
    /\ Outcome.kind = "Ok"
    /\ Len(stack) < MaxPly
    /\ stack' = Append(stack,
           Activation(~Top.master_team, Top.current_depth + 1,
                      BranchValue(Top.master_team, Top.init_value,
                                  Outcome.new_board.points_delta),
                      Top.prune_value, Outcome.new_board))
    /\ last' = Applied("Ok")
    /\ UNCHANGED << Inputs, Others, opening_heatmap, pc, result, previous >>

\* lines 150-181: Err(Win) and Err(Draw)
ApplyEnd ==
    /\ InLoop
    /\ Outcome.kind \in { "Win", "Draw" }
    /\ stack' = ReplaceTop(
           Entered(Top,
                   MakeMove(Top.moves[Top.i].initial_piece_coordinates,
                            Top.moves[Top.i].final_piece_bit,
                            ErrBranchValue(Top.master_team, Outcome.kind), 0),
                   Outcome.kind))
    /\ last' = Applied(Outcome.kind)
    /\ UNCHANGED << Inputs, Others, opening_heatmap, pc, result, previous >>

\* lines 150-181: Err(InvalidMove) and Err(InvalidMoveCheck)
ApplyInvalid ==
    /\ InLoop
    /\ Outcome.kind \in { "InvalidMove", "InvalidMoveCheck" }
    /\ stack' = ReplaceTop([ Top EXCEPT !.i = Top.i + 1, !.prev_kind = Outcome.kind ])
    /\ last' = Applied(Outcome.kind)
    /\ UNCHANGED << Inputs, Others, opening_heatmap, pc, result, previous >>

LoopOver ==
    /\ pc = "running"
    /\ Top.at = "loop"
    /\ Top.broke \/ Top.i > Len(Top.moves)

\* lines 211-217
NodeReturn ==
    /\ LoopOver
    /\ Unwrapped(Top.master_team, Top.min_max)
    /\ Return(ReturnMove(Top.master_team, Top.min_max), "return")
    /\ UNCHANGED << Inputs, Others, opening_heatmap, previous >>

\* lines 213 / 215: unwrap() of None
Panic ==
    /\ LoopOver
    /\ ~Unwrapped(Top.master_team, Top.min_max)
    /\ pc' = "panic"
    /\ last' = [ op |-> "panic", frame |-> Top ]
    /\ UNCHANGED << Inputs, Others, opening_heatmap, stack, result, previous >>

\* the boards of a search: the kings on the first and the last square
KingsBoard(w) ==
    [ board |-> Placement(0, NumSquares - 1, BlackTop, 0), whites_move |-> w,
      points_delta |-> 0 ]

\* outcomes of new_turn for a king's move of one square or of two (castling)
FreeOutcomes ==
    { [kind |-> "Ok", points_delta |-> d] : d \in Deltas } \cup
    { [kind |-> k, points_delta |-> 0] : k \in { "Win", "Draw", "InvalidMoveCheck" } }

Distance(a, b) == IF a > b THEN a - b ELSE b - a

\* the rows of a table: a king that stays on its square or goes further than two
\* squares makes an InvalidMove, every other destination has any outcome
TurnRows(w, outcomes) ==
    LET own == FriendlyKing(KingsBoard(w)).bit
        near == { s \in Squares : Distance(s, own) \in { 1, 2 } }
    IN  { [ s \in Squares |-> IF s \in near THEN free[s]
                              ELSE [kind |-> "InvalidMove", points_delta |-> 0] ] :
            free \in [ near -> outcomes ] }

\* new_turn answers Win or Draw, never Ok, when the resulting position leaves the
\* opponent without a legal response: a side that has a successful move faces
\* an opponent with a move that succeeds or ends the game
HasResponse(row) == \E s \in Squares : row[s].kind \in { "Ok", "Win", "Draw" }

Succeeds(row) == \E s \in Squares : row[s].kind = "Ok"

TurnTables(outcomes) ==
    { t \in { [ w \in BOOLEAN |-> IF w THEN white ELSE black ] :
                white \in TurnRows(TRUE, outcomes), black \in TurnRows(FALSE, outcomes) } :
        \A w \in BOOLEAN : Succeeds(t[w]) => HasResponse(t[~w]) }

InitSearch ==
    /\ board = KingsBoard(TRUE)
    /\ piece_moves = NoPieceMoves
    /\ enemy_attacks = NoAttacks
    /\ opening_heatmap = ZeroHeatmap
    /\ new_turn_table \in TurnTables(FreeOutcomes)
    /\ pieces_info = PiecesInfoGen
    /\ moves = NoneMoves
    /\ min_max = MinMaxNew
    /\ applied = << >>
    /\ search_depth \in 0 .. MaxDepth
    /\ master_team = TRUE
    /\ stack = << >>
    /\ pc = "idle"
    /\ result = MoveNew
    /\ previous = NoMove
    /\ last = IdleLast
    /\ FirmwareOff

\* called externally with current_depth = 0
Init ==
    /\ InitSearch
    /\ current_depth = 0

Next ==
    \/ RootCall
    \/ LeafReturn
    \/ Expand
    \/ ApplyOk
    \/ ApplyEnd
    \/ ApplyInvalid
    \/ NodeReturn
    \/ Panic

Spec == Init /\ [][Next]_vars


\* ------------------------------------------------------------- the claims
Max(S) == CHOOSE x \in S : \A y \in S : y <= x
Min(S) == CHOOSE x \in S : \A y \in S : x <= y

\* the unpruned minimax of the tree new_turn_table unfolds from board b: the
\* maximum on master-side plies, the minimum on the others, leaves scored by the
\* accumulated value, Win and Draw by the terminal scores.  None when a node of
\* the tree has no candidate that ends in Ok, Win or Draw.
RECURSIVE Minimax(_, _, _, _)
Minimax(master, depth, acc, b) ==
    IF depth = search_depth
    THEN Some(acc)
    ELSE LET cands == { m \in { Candidates(b, ZeroHeatmap)[k] :
                                  k \in 1 .. Len(Candidates(b, ZeroHeatmap)) } :
                          NewTurn(m.initial_piece_coordinates, m.final_piece_bit, b).kind
                              \in { "Ok", "Win", "Draw" } }
             score(m) ==
                 LET o == NewTurn(m.initial_piece_coordinates, m.final_piece_bit, b)
                 IN  IF o.kind = "Win" THEN Some(IF master THEN 127 ELSE -127)
                     ELSE IF o.kind = "Draw" THEN Some(0)
                     ELSE Minimax(~master, depth + 1,
                                  IF master THEN acc + o.new_board.points_delta
                                            ELSE acc - o.new_board.points_delta,
                                  o.new_board)
             scores == { score(m) : m \in cands }
         IN  IF cands = {} \/ \E v \in scores : ~v.some
             THEN None
             ELSE LET vals == { v.val : v \in scores }
                  IN  Some(IF master THEN Max(vals) ELSE Min(vals))

\* C1: a root call (current_depth 0, accumulated value 0, parent bound None)
\* returns the value of the unpruned minimax of the same tree, and fails only
\* where the unpruned minimax is undefined.
C1_PruningSound ==
    /\ pc = "done" =>
           LET exact == Minimax(master_team, 0, 0, board)
           IN  exact.some => result.value = exact.val
    /\ pc = "panic" => ~Minimax(master_team, 0, 0, board).some

\* a finished search of full depth in which both a non-master node at depth 1
\* and a master-side node at depth 2 broke off with candidates left
C1_Witness ==
    /\ pc = "done"
    /\ search_depth = MaxDepth
    /\ last.op = "return"
    /\ { 1, 2 } \subseteq CutDepths(last.frame)
    /\ Minimax(master_team, 0, 0, board).some

SeenValues(f) == { f.seen[k].value : k \in 1 .. Len(f.seen) }

\* C2: a call with current_depth < search_depth returns, on a master-side ply, a
\* Move with the coordinates and destination of one of its own candidates that
\* ended in Ok, Win or Draw, the maximum of the values obtained for its
\* candidates and heatmap_value 0; on a non-master ply the placeholder with the
\* minimum of the values obtained.
C2_ReturnedMove ==
    last.op = "return" =>
        LET f == last.frame
            r == last.returned
        IN  /\ f.current_depth < search_depth
            /\ f.seen # << >>
            /\ IF f.master_team
               THEN /\ \E k \in 1 .. Len(f.seen) :
                           /\ f.seen[k].kind \in { "Ok", "Win", "Draw" }
                           /\ r.initial_piece_coordinates
                                  = f.moves[f.seen[k].k].initial_piece_coordinates
                           /\ r.final_piece_bit = f.moves[f.seen[k].k].final_piece_bit
                           /\ r.value = f.seen[k].value
                    /\ r.initial_piece_coordinates.board_index = FriendlyKingIndex(f.board)
                    /\ r.value = Max(SeenValues(f))
                    /\ r.heatmap_value = 0
               ELSE r = MakeMove(BoardCoordinates(0, 0), 0, Min(SeenValues(f)), 0)

\* a master-side node below the root returns its second valued candidate, which
\* beat the first, the value coming from a recursion two plies deep
C2_Witness ==
    /\ last.op = "return"
    /\ last.frame.master_team
    /\ last.frame.current_depth = 2
    /\ Len(last.frame.seen) >= 2
    /\ last.frame.seen[2].kind = "Ok"
    /\ last.returned.value = last.frame.seen[2].value
    /\ last.returned.value > last.frame.seen[1].value
    /\ last.returned.final_piece_bit = last.frame.moves[last.frame.seen[2].k].final_piece_bit

\* C7: a candidate whose turn fails causes no recursive call; Win enters the
\* running best with 127 on a master-side ply and -127 on another, Draw with 0,
\* InvalidMove and InvalidMoveCheck leave the running best and the bound handed
\* to later children as they were.
C7_FailedTurn ==
    (last.op = "apply" /\ last.kind # "Ok") =>
        LET before == last.frame
            after == Top
            v == IF last.kind = "Draw" THEN 0
                 ELSE IF before.master_team THEN 127 ELSE -127
            old == before.min_max
            new == after.min_max
        IN  /\ Len(stack) = last.depth
            /\ after.at = "loop" /\ after.i = before.i + 1
            /\ last.kind \in { "InvalidMove", "InvalidMoveCheck" } =>
                   /\ new = old
                   /\ after.prune_value = before.prune_value
            /\ last.kind \in { "Win", "Draw" } =>
                   /\ new.max_move.some /\ new.min_value.some
                   /\ new.max_move.val.value
                          = IF old.max_move.some THEN Max({ old.max_move.val.value, v }) ELSE v
                   /\ new.min_value.val
                          = IF old.min_value.some THEN Min({ old.min_value.val, v }) ELSE v
                   /\ after.prune_value
                          = Some(IF before.master_team THEN new.max_move.val.value
                                                       ELSE new.min_value.val)

\* a Win on a non-master ply that lowers a running minimum already set
C7_Witness ==
    /\ last.op = "apply"
    /\ last.kind = "Win"
    /\ ~last.frame.master_team
    /\ last.frame.min_max.min_value.some
    /\ last.frame.min_max.min_value.val > -127
    /\ Top.min_max.min_value.val = -127

\* the running best of an activation has reached the bound its caller gave it
Reached(f) ==
    /\ f.parent_value.some
    /\ IF f.master_team
       THEN f.min_max.max_move.some /\ f.min_max.max_move.val.value >= f.parent_value.val
       ELSE f.min_max.min_value.some /\ f.min_max.min_value.val <= f.parent_value.val

\* C9, as claimed: no candidate is examined once the running best has reached the
\* parent's bound, whichever outcome brought it there; with parent bound None
\* every candidate is examined.
C9_AsClaimed ==
    /\ last.op = "apply" => ~Reached(last.frame)
    /\ (last.op = "return" /\ ~last.frame.parent_value.some)
           => last.frame.i = Len(last.frame.moves) + 1

\* C9, amended: the bound is compared only after a successful recursion returns.
\* No candidate is examined after a recursion returned with the running best at
\* the bound; a Win or a Draw that brings it there does not stop the loop, which
\* goes on to the next candidate.  With parent bound None every candidate is
\* examined.
C9_CheckedAfterRecursion ==
    /\ (last.op = "apply" /\ Reached(last.frame))
           => last.frame.prev_kind \in { "Win", "Draw", "InvalidMove", "InvalidMoveCheck" }
    /\ (stack # << >> /\ Top.at = "loop" /\ Top.prev_kind = "Ok")
           => (Top.broke <=> Reached(Top))
    /\ (last.op = "return" /\ last.frame.i <= Len(last.frame.moves))
           => /\ Reached(last.frame)
              /\ last.frame.prev_kind = "Ok"
    /\ (last.op = "return" /\ ~last.frame.parent_value.some)
           => last.frame.i = Len(last.frame.moves) + 1

\* a node that stopped after a recursion with a candidate left, having before
\* that gone on past a Win or a Draw that had already reached the bound
C9_Witness ==
    /\ last.op = "return"
    /\ last.frame.broke
    /\ last.frame.i <= Len(last.frame.moves)
    /\ Len(last.frame.seen) >= 2
    /\ last.frame.seen[1].kind \in { "Win", "Draw" }
    /\ IF last.frame.master_team
       THEN last.frame.seen[1].value >= last.frame.parent_value.val
       ELSE last.frame.seen[1].value <= last.frame.parent_value.val

RECURSIVE PathSum(_)
PathSum(path) ==
    IF path = << >>
    THEN 0
    ELSE (IF Head(path).master THEN Head(path).points_delta
                               ELSE 0 - Head(path).points_delta) + PathSum(Tail(path))

\* C10: a call with current_depth = search_depth returns at once, having generated
\* no moves and applied no turn, a Move whose value is the accumulated value; a
\* child's accumulated value is its caller's plus the new board's points_delta on
\* a master-side ply and minus it on another; so a leaf's score is the signed sum
\* of the points_deltas along its path.
C10_LeafScore ==
    /\ \A j \in 1 .. Len(stack) :
           /\ stack[j].current_depth = j - 1
           /\ stack[j].current_depth = search_depth =>
                  /\ stack[j].at = "entry"
                  /\ stack[j].moves = << >>
                  /\ stack[j].i = 1
           /\ j = 1 => stack[j].init_value = 0
           /\ j > 1 => stack[j].init_value =
                  IF stack[j - 1].master_team
                  THEN stack[j - 1].init_value + stack[j].board.points_delta
                  ELSE stack[j - 1].init_value - stack[j].board.points_delta
    /\ last.op = "leaf" =>
           /\ last.frame.current_depth = search_depth
           /\ last.frame.at = "entry" /\ last.frame.moves = << >> /\ last.frame.i = 1
           /\ last.returned = MakeMove(BoardCoordinates(0, 0), 0, last.frame.init_value, 0)
           /\ last.returned.value = PathSum(last.path)

\* a leaf at full depth with a score that is not 0, both sides having taken material
C10_Witness ==
    /\ last.op = "leaf"
    /\ Len(last.path) = MaxDepth
    /\ last.returned.value # 0
    /\ \E k \in 1 .. Len(last.path) : last.path[k].master /\ last.path[k].points_delta > 0
    /\ \E k \in 1 .. Len(last.path) : ~last.path[k].master /\ last.path[k].points_delta > 0


\* ------------------------------- the same search under two heatmap tables
\* a second root call on the same board, side flag and depth, with another
\* heatmap table; the first call's Move is kept in previous
SecondCall ==
    /\ pc = "done"
    /\ ~previous.some
    /\ previous' = Some(result)
    /\ opening_heatmap' \in Heatmaps
    /\ pc' = "running"
    /\ stack' = << Activation(master_team, current_depth, 0, None, board) >>
    /\ last' = [ op |-> "call" ]
    /\ UNCHANGED << Inputs, Others, result >>

InitHeat ==
    /\ Init
    /\ search_depth > 0

NextHeat ==
    \/ Next
    \/ SecondCall

SpecHeat == InitHeat /\ [][NextHeat]_vars

\* C8: two root calls that differ only in the heatmap table return Moves of the
\* same value.
C8_HeatmapFree ==
    (pc = "done" /\ previous.some) => result.value = previous.val.value

\* two finished searches of full depth whose heatmaps made the root examine its
\* candidates in different orders and return different moves of the same value
C8_Witness ==
    /\ pc = "done"
    /\ previous.some
    /\ search_depth = MaxDepth
    /\ opening_heatmap # ZeroHeatmap
    /\ last.op = "return"
    /\ last.frame.moves # Candidates(board, ZeroHeatmap)
    /\ result # previous.val
    /\ result.value = previous.val.value



\* ------------------------------------------------------------------ C11
\* the turn the candidate moves[k] of an activation ends in
EndsIn(f, k) ==
    NewTurn(f.moves[k].initial_piece_coordinates, f.moves[k].final_piece_bit, f.board).kind

\* every candidate of the activation ends in InvalidMove or InvalidMoveCheck
\* (also when it has no candidates)
AllInvalid(f) ==
    \A k \in 1 .. Len(f.moves) : EndsIn(f, k) \in { "InvalidMove", "InvalidMoveCheck" }

\* C11: a call with current_depth < search_depth whose candidates all end in
\* InvalidMove or InvalidMoveCheck (or that has none) reaches the end of its
\* loop with the running best unset and panics on the unwrap instead of
\* returning a Move; a call with a candidate that ends in Ok, Win or Draw has
\* the running best set at the end of its loop, returns a Move, and is never
\* on the stack of a search that panicked.
C11_PanicIffAllInvalid ==
    /\ (pc = "running" /\ Top.at = "loop" /\ (Top.broke \/ Top.i > Len(Top.moves)))
         => /\ Top.current_depth < search_depth
            /\ AllInvalid(Top) <=> ~Unwrapped(Top.master_team, Top.min_max)
            /\ AllInvalid(Top) => (Top.min_max = MinMaxNew /\ ~Top.broke)
    /\ pc = "panic"
         => /\ last.op = "panic"
            /\ \A j \in 1 .. Len(stack) : stack[j].at = "loop" /\ AllInvalid(stack[j])
            /\ Top.current_depth < search_depth
            /\ Top.min_max = MinMaxNew
    /\ last.op = "return"
         => /\ ~AllInvalid(last.frame)
            /\ last.frame.current_depth < search_depth
    /\ (pc = "done" /\ last.op = "return") => result = last.returned

\* the call panicked over candidates of both invalid kinds
C11_Witness ==
    /\ pc = "panic"
    /\ \E k \in 1 .. Len(Top.moves) : EndsIn(Top, k) = "InvalidMove"
    /\ \E k \in 1 .. Len(Top.moves) : EndsIn(Top, k) = "InvalidMoveCheck"



\* ------------------------------------------------------------------ C12
\* C12: no step of the search changes the board of an activation that stays
\* on the stack: a candidate is applied to the board the node was called
\* with, a call gets the new board of the turn as a board of its own, and a
\* return, with or without a break below or in the caller, leaves the
\* caller's board as it was; the root's board, the piece catalog and the
\* heatmap table are the same after every step.
C12_BoardsKept ==
    [][ /\ \A j \in 1 .. Len(stack) :
               j <= Len(stack') => stack'[j].board = stack[j].board
        /\ (stack # << >> /\ Len(stack') = Len(stack) + 1)
               => /\ last'.op = "apply" /\ last'.frame.board = Top.board
                  /\ stack'[Len(stack')].board = Outcome.new_board
                  /\ stack'[Len(stack')].board # Top.board
        /\ (stack = << >> /\ stack' # << >>) => stack'[1].board = board
        /\ board' = board
        /\ pieces_info' = pieces_info
        /\ opening_heatmap' = opening_heatmap ]_vars

\* a later sibling is being applied in a node below the root after a recursion
\* of the node returned with candidates cut off beneath it
C12_Witness ==
    /\ pc = "running"
    /\ last.op = "apply"
    /\ last.depth >= 2
    /\ last.frame.board = stack[last.depth].board
    /\ last.frame.cut_depths # {}
    /\ \E k \in 1 .. Len(last.frame.seen) : last.frame.seen[k].kind = "Ok"



\* ------------------------------------------------------------------ C13
\* the outcomes of a turn without their points_delta
DepthOutcomes ==
    { [kind |-> k, points_delta |-> 0] : k \in { "Ok", "Win", "InvalidMoveCheck" } }

\* tables that answer black as they answer white on the mirrored square
MirrorTables(outcomes) ==
    { t \in TurnTables(outcomes) :
        \A s \in Squares : t[FALSE][s] = t[TRUE][(NumSquares - 1) - s] }

\* root calls with any current_depth, also one past search_depth; the program
\* runs on while a step is possible
InitDepth ==
    /\ InitSearch
    /\ new_turn_table \in MirrorTables(DepthOutcomes)
    /\ current_depth \in 0 .. (MaxDepth + 1)

SpecDepth == InitDepth /\ [][Next]_vars /\ WF_vars(Next)

Terminated == pc \in { "done", "panic" }

\* the activations of one search: each is one ply below its caller, on the
\* other side; a search entered at or above search_depth's level keeps within
\* it, one entered below it never has an activation at the stop condition
C13_Depths ==
    /\ \A j \in 1 .. Len(stack) :
           /\ stack[j].current_depth = current_depth + (j - 1)
           /\ stack[j].master_team = (IF j % 2 = 1 THEN master_team ELSE ~master_team)
    /\ current_depth <= search_depth
          => /\ \A j \in 1 .. Len(stack) : stack[j].current_depth <= search_depth
             /\ Len(stack) <= (search_depth - current_depth) + 1
             /\ Len(stack) <= MaxPly
    /\ current_depth > search_depth
          => /\ \A j \in 1 .. Len(stack) : stack[j].current_depth > search_depth
             /\ last.op # "leaf"

\* C13: a call with current_depth <= search_depth terminates (it returns or
\* panics); every recursive call is one ply deeper than its caller with the
\* side flag flipped and the same search_depth, no call has current_depth >
\* search_depth, and the stack is at most search_depth - current_depth calls
\* deeper than the root. A call entered with current_depth > search_depth never
\* meets the depth stop condition.
C13_Terminates ==
    /\ []C13_Depths
    /\ [][search_depth' = search_depth /\ current_depth' = current_depth]_vars
    /\ (current_depth <= search_depth) ~> Terminated

\* a leaf of the deepest search entered below the top of the tree returned
C13_Witness ==
    /\ last.op = "leaf"
    /\ current_depth = 1
    /\ search_depth = MaxDepth
    /\ Len(last.path) = search_depth - current_depth
    /\ last.frame.current_depth = search_depth



\* ------------------------------------------- main: the team selection loop
MaxPeriods == 3      \* message periods the cycle counter runs for
MaxTicks == 3        \* most half periods that pass during one button.press

ClockMhz == 72           \* let clock_mhz = 72
TeamMessageMs == 1000    \* embedded::ms_to_cycles(1000, clock_mhz as u64)

\* embedded::ms_to_cycles(ms, clock_mhz)
ms_to_cycles(ms, mhz) == ms * mhz * 1000

team_message_cycles == ms_to_cycles(TeamMessageMs, ClockMhz)

StartAsWhite == "Start as white?"
StartAsBlack == "Start as black?"

\* the cycles that pass between two readings of the counter, in half periods
Advances == { k * (team_message_cycles \div 2) : k \in 0 .. MaxTicks }

CycleCap == MaxPeriods * team_message_cycles

\* lines 126-136: an iteration of the outer loop begins
SelectStart ==
    /\ main_pc = "start"
    /\ player_white' = TRUE
    /\ game_started' = FALSE
    /\ team_message_start_cycle' = 0
    /\ main_pc' = "while"
    /\ UNCHANGED << Engine, cycle_counter, lcd, pressed, rtt >>

\* line 138: while !game_started
WhileTest ==
    /\ main_pc = "while"
    /\ main_pc' = IF ~game_started THEN "display" ELSE "chosen"
    /\ UNCHANGED << Engine, player_white, game_started, team_message_start_cycle,
                    cycle_counter, lcd, pressed, rtt >>

\* lines 141-148: the prompt of the side player_white holds
Display ==
    /\ main_pc = "display"
    /\ lcd' = IF player_white THEN StartAsWhite ELSE StartAsBlack
    /\ pressed' = FALSE
    /\ main_pc' = "press"
    /\ UNCHANGED << Engine, player_white, game_started, team_message_start_cycle,
                    cycle_counter, rtt >>

\* lines 151-153: button.press(&mut cycle_counter) reads the counter on and
\* answers whether a press is registered
ButtonPress ==
    /\ main_pc = "press"
    /\ \E registered \in BOOLEAN, d \in Advances :
           /\ cycle_counter + d <= CycleCap
           /\ cycle_counter' = cycle_counter + d
           /\ pressed' = registered
           /\ game_started' = IF registered THEN TRUE ELSE game_started
    /\ main_pc' = "toggle"
    /\ UNCHANGED << Engine, player_white, team_message_start_cycle, lcd, rtt >>

\* lines 155-158: the message of the other side is due
Toggle ==
    /\ main_pc = "toggle"
    /\ IF cycle_counter > team_message_start_cycle + team_message_cycles
       THEN /\ team_message_start_cycle' = cycle_counter
            /\ player_white' = ~player_white
       ELSE UNCHANGED << team_message_start_cycle, player_white >>
    /\ main_pc' = "while"
    /\ UNCHANGED << Engine, game_started, cycle_counter, lcd, pressed, rtt >>

\* line 162: rprintln!("{}", player_white), and the outer loop goes round
Chosen ==
    /\ main_pc = "chosen"
    /\ rtt' = IF player_white THEN "true" ELSE "false"
    /\ main_pc' = "start"
    /\ UNCHANGED << Engine, player_white, game_started, team_message_start_cycle,
                    cycle_counter, lcd, pressed >>

\* main reaches its loop: the counter is new, nothing is on the display, and
\* no search is running
InitMain ==
    /\ board = KingsBoard(TRUE)
    /\ piece_moves = NoPieceMoves
    /\ enemy_attacks = NoAttacks
    /\ opening_heatmap = ZeroHeatmap
    /\ new_turn_table = NoTurns
    /\ pieces_info = PiecesInfoGen
    /\ moves = NoneMoves
    /\ min_max = MinMaxNew
    /\ applied = << >>
    /\ search_depth = 0
    /\ current_depth = 0
    /\ master_team = TRUE
    /\ stack = << >>
    /\ pc = "idle"
    /\ result = MoveNew
    /\ previous = NoMove
    /\ last = IdleLast
    /\ player_white = TRUE
    /\ game_started = FALSE
    /\ team_message_start_cycle = 0
    /\ cycle_counter = 0
    /\ lcd = ""
    /\ pressed = FALSE
    /\ rtt = ""
    /\ main_pc = "start"

NextMain ==
    \/ SelectStart
    \/ WhileTest
    \/ Display
    \/ ButtonPress
    \/ Toggle
    \/ Chosen

SpecMain == InitMain /\ [][NextMain]_vars

\* the side whose prompt is on the display
Prompted == lcd = StartAsWhite

\* C14: the team selection loop is left only after the iteration registered a
\* button press, and player_white at that point is the side whose prompt was
\* on the display in that iteration: the toggle after an accepted press did
\* not flip it.
C14_AsClaimed ==
    main_pc = "chosen"
        => /\ game_started
           /\ pressed
           /\ lcd \in { StartAsWhite, StartAsBlack }
           /\ player_white = Prompted

\* C14, what the loop does keep: it is left only after a press was registered
\* in its last iteration, with the side of the prompt or, when the message
\* period had run out by then, the other side
C14_ExitAfterPress ==
    main_pc = "chosen"
        => /\ game_started
           /\ pressed
           /\ lcd \in { StartAsWhite, StartAsBlack }
           /\ (player_white # Prompted) => team_message_start_cycle = cycle_counter

\* the loop was left after a press on the prompt for white with black chosen
C14_Witness ==
    /\ main_pc = "chosen"
    /\ pressed
    /\ lcd = StartAsWhite
    /\ ~player_white
    /\ team_message_start_cycle = cycle_counter

=============================================================================
